---- MODULE Spec2Model ----
(***************************************************************************)
(* A model of sgpt's command-line entry point, main() of src/sgpt/app.py:  *)
(* one invocation of main from the reading of stdin to its return, its     *)
(* exit() or the exception that ends it.  The collaborators main calls     *)
(* (role lookup, the handlers, typer.prompt, run_command,                  *)
(* copy_to_clipboard) are recorded, call by call, in the sequence `calls`. *)
(***************************************************************************)
EXTENDS Integers, Sequences, FiniteSets, TLC

(***************************************************************************)
(* Bounds of the model.                                                    *)
(***************************************************************************)
\* How many times Describe may be chosen in one invocation.
MaxDescribe == 2
\* How many turns the REPL takes before only the interrupt is left.
MaxTurns == 1
\* How many exchanges (a user message and its answer) a stored conversation
\* holds at most.
MaxExchanges == 1

(***************************************************************************)
(* Python values.  An Optional[str] is <<>> (None) or <<s>>; the same      *)
(* encoding serves for a local variable that may be unbound.               *)
(***************************************************************************)
None == <<>>
Some(s) == <<s>>
Unbound == <<>>

\* bool(x) of an Optional[str]: None and "" are falsy.
Truthy(o) == o # None /\ o[1] # ""

\* `x or ''`
OrEmpty(o) == IF Truthy(o) THEN o[1] ELSE ""

BoolInt(b) == IF b THEN 1 ELSE 0

(***************************************************************************)
(* The values the inputs are drawn from.                                   *)
(***************************************************************************)
Prompts == {None, Some(""), Some("list files")}
StdinTexts == {"", "ls -la"}
EditedPrompts == {Some(""), Some("edited")}
RoleNames == {None, Some(""), Some("custom-role"), Some("shell"), Some("nosuch")}
ChatIds == {"temp", "", "abc"}
ExecuteDefaults == {"true", "false", "True"}
Completions == {"ls", "rm -r x"}
Descriptions == {"lists the files"}

\* What the user types at an action prompt; "" is a bare Enter.
Typed == {"", "e", "E", "y", "d", "a", "A", "c", "C"}

BuiltinRoles == {"default", "shell", "describe_shell", "code"}
StoredRoles == BuiltinRoles \cup {"custom-role"}

Args ==
    [prompt : Prompts, shell : BOOLEAN, describe_shell : BOOLEAN, code : BOOLEAN,
     editor : BOOLEAN, chat_id : ChatIds, repl : BOOLEAN, print_chat : BOOLEAN,
     delete_chat : BOOLEAN, role : RoleNames]

Envs ==
    {e \in [isatty : BOOLEAN, stdin : StdinTexts, default_execute : ExecuteDefaults] :
        e.isatty => e.stdin = ""}

VARIABLES
    pc,               \* where main is
    args,             \* the parameters main was called with
    env,              \* stdin and the configuration
    prompt,           \* main's local `prompt`
    stdin_passed,     \* main's local `stdin_passed`
    role_class,       \* main's local `role_class`, unbound or a role
    full_completion,  \* main's local `full_completion`, unbound or a text
    option,           \* main's local `option`
    error,            \* the exception that ended main, "" if none
    turns,            \* turns the REPL has taken
    calls,            \* the calls main made to its collaborators, in order
    answer,           \* what was typed at the last action prompt, if anything
    chats,            \* the stored conversations: exchanges held, by id
    seen              \* <<stored, read>>: what the conversation held when the
                      \* chat handler was made, and what the handler then read

vars ==
    <<pc, args, env, prompt, stdin_passed, role_class, full_completion, option,
      error, turns, calls, answer, chats, seen>>

NoArgs ==
    [prompt |-> None, shell |-> FALSE, describe_shell |-> FALSE, code |-> FALSE,
     editor |-> FALSE, chat_id |-> "temp", repl |-> FALSE, print_chat |-> FALSE,
     delete_chat |-> FALSE, role |-> None]

NoEnv == [isatty |-> TRUE, stdin |-> "", default_execute |-> "false"]

\* A call that returned `ret`, and a call that has not returned: typer.prompt
\* while it waits for the answer, or a call that raised.
Call(fn, role, arg, ret) == [fn |-> fn, role |-> role, arg |-> arg, ret |-> ret, ok |-> TRUE]
Pending(fn, role, arg) == [fn |-> fn, role |-> role, arg |-> arg, ret |-> "", ok |-> FALSE]

(***************************************************************************)
(* The stored conversations, sgpt/handlers/chat_handler.py.  A conversation *)
(* that does not exist reads as empty; the conversation with the empty id   *)
(* is not kept.  The chat handler of a one-shot invocation on "temp" starts *)
(* by deleting "temp".                                                      *)
(***************************************************************************)
StoredIds == ChatIds \ {""}
EmptyStore == [c \in StoredIds |-> 0]

Stored(store, id) == IF id \in DOMAIN store THEN store[id] ELSE 0

ChatDelete(store, id) == IF id \in DOMAIN store THEN [store EXCEPT ![id] = 0] ELSE store

\* A variant that keeps "temp" from one invocation to the next.
ChatInitKeeps(store, id) == store

ChatInit(store, id) == IF id = "temp" THEN ChatDelete(store, "temp") ELSE store

ChatAppend(store, id) ==
    IF id \in DOMAIN store THEN [store EXCEPT ![id] = @ + 1] ELSE store

Room(store, id) == Stored(store, id) < MaxExchanges

Init ==
    /\ pc = "idle"
    /\ args = NoArgs
    /\ env = NoEnv
    /\ prompt = None
    /\ stdin_passed = FALSE
    /\ role_class = Unbound
    /\ full_completion = Unbound
    /\ option = ""
    /\ error = ""
    /\ turns = 0
    /\ calls = <<>>
    /\ answer = None
    /\ chats = EmptyStore
    /\ seen = <<>>

\* raise: the exception leaves main, nothing after it runs.
Raise(e) ==
    /\ pc' = "raised"
    /\ error' = e

(***************************************************************************)
(* main is called; lines 145-148.                                          *)
(***************************************************************************)
StdinPrompt(text, p) == Some(text \o "\n\n" \o OrEmpty(p))

Invoke ==
    /\ pc = "idle"
    /\ \E a \in Args, e \in Envs :
        /\ args' = a
        /\ env' = e
        /\ stdin_passed' = ~e.isatty
        /\ prompt' = IF ~e.isatty /\ ~a.repl THEN StdinPrompt(e.stdin, a.prompt) ELSE a.prompt
    /\ pc' = "modes"
    /\ UNCHANGED <<answer, chats, seen, role_class, full_completion, option,
                   error, turns, calls>>

(***************************************************************************)
(* Lines 151-154: more than one of --shell, --describe-shell, --code.      *)
(***************************************************************************)
\* A variant of line 151 that lets two modes through.
ConflictingModesOffByOne(shell, describe_shell, code) ==
    BoolInt(shell) + BoolInt(describe_shell) + BoolInt(code) > 2

ConflictingModes(shell, describe_shell, code) ==
    BoolInt(shell) + BoolInt(describe_shell) + BoolInt(code) > 1

CheckModes ==
    /\ pc = "modes"
    /\ IF ConflictingModes(args.shell, args.describe_shell, args.code)
       THEN Raise("BadArgumentUsage: only one of --shell, --describe-shell, --code")
       ELSE pc' = "editor" /\ UNCHANGED error
    /\ UNCHANGED <<answer, chats, seen, args, env, prompt, stdin_passed,
                   role_class, full_completion, option, turns, calls>>

(***************************************************************************)
(* Lines 156-160: --editor.                                                *)
(***************************************************************************)
CheckEditor ==
    /\ pc = "editor"
    /\ IF args.editor /\ stdin_passed
       THEN /\ Raise("BadArgumentUsage: --editor cannot be used with stdin input")
            /\ UNCHANGED <<prompt, calls>>
       ELSE /\ pc' = "role"
            /\ UNCHANGED error
            /\ IF args.editor
               THEN \E p \in EditedPrompts :
                        /\ prompt' = p
                        /\ calls' = Append(calls, Call("get_edited_prompt", "", "", p[1]))
               ELSE UNCHANGED <<prompt, calls>>
    /\ UNCHANGED <<answer, chats, seen, args, env, stdin_passed, role_class,
                   full_completion, option, turns>>

(***************************************************************************)
(* Lines 162-166: the role.  DefaultRoles.check_get and SystemRole.get are *)
(* sgpt/role.py.                                                           *)
(***************************************************************************)
CheckGet(shell, describe_shell, code) ==
    IF shell THEN "shell"
    ELSE IF describe_shell THEN "describe_shell"
    ELSE IF code THEN "code"
    ELSE "default"

RoleExists(name) == name \in StoredRoles

\* A variant of lines 162-166 in which a mode flag wins over the role name.
ResolvedRoleFlagsFirst(role, shell, describe_shell, code) ==
    IF shell \/ describe_shell \/ code \/ ~Truthy(role)
    THEN CheckGet(shell, describe_shell, code)
    ELSE role[1]

\* The role line 162-166 binds to role_class when the lookup finds one.
ResolvedRole(role, shell, describe_shell, code) ==
    IF ~Truthy(role) THEN CheckGet(shell, describe_shell, code) ELSE role[1]

ResolveRole ==
    /\ pc = "role"
    /\ LET r == ResolvedRole(args.role, args.shell, args.describe_shell, args.code)
           fn == IF ~Truthy(args.role) THEN "DefaultRoles.check_get" ELSE "SystemRole.get"
       IN  IF RoleExists(r)
           THEN /\ role_class' = Some(r)
                /\ calls' = Append(calls, Call(fn, "", OrEmpty(args.role), r))
                /\ pc' = "dispatch"
                /\ UNCHANGED error
           ELSE /\ calls' = Append(calls, Pending(fn, "", OrEmpty(args.role)))
                /\ Raise("UnknownRole")
                /\ UNCHANGED role_class
    /\ UNCHANGED <<answer, chats, seen, args, env, prompt, stdin_passed,
                   full_completion, option, turns>>

(***************************************************************************)
(* Lines 168-197: the REPL, --print-chat, --delete-chat, or the one-shot   *)
(* completion, in the order main tests them.                               *)
(***************************************************************************)
\* A variant that tests --print-chat before --interactive.
BranchPrintFirst(a) ==
    IF a.print_chat THEN "print"
    ELSE IF a.repl THEN "repl"
    ELSE IF a.delete_chat THEN "delete"
    ELSE "complete"

\* A variant that tests --delete-chat before --print-chat.
BranchDeleteFirst(a) ==
    IF a.repl THEN "repl"
    ELSE IF a.delete_chat THEN "delete"
    ELSE IF a.print_chat THEN "print"
    ELSE "complete"

Branch(a) ==
    IF a.repl THEN "repl"
    ELSE IF a.print_chat THEN "print"
    ELSE IF a.delete_chat THEN "delete"
    ELSE "complete"

\* Lines 168-177.  ReplHandler.handle is sgpt/handlers/repl_handler.py: it
\* loops until the interrupt, which unwinds main.
EnterRepl ==
    /\ pc = "dispatch"
    /\ Branch(args) = "repl"
    /\ calls' = Append(calls, Pending("ReplHandler.handle", role_class[1], OrEmpty(prompt)))
    /\ pc' = "repl"
    /\ UNCHANGED <<answer, chats, seen, args, env, prompt, stdin_passed,
                   role_class, full_completion, option, error, turns>>

ReplTurn ==
    /\ pc = "repl"
    /\ turns < MaxTurns
    /\ Room(chats, args.chat_id)
    /\ turns' = turns + 1
    /\ chats' = ChatAppend(chats, args.chat_id)
    /\ \E text \in Completions :
        calls' = Append(calls, Call("ReplHandler.get_completion", role_class[1], args.chat_id, text))
    /\ UNCHANGED <<answer, seen, pc, args, env, prompt, stdin_passed,
                   role_class, full_completion, option, error>>

ReplInterrupt ==
    /\ pc = "repl"
    /\ Raise("Abort")
    /\ UNCHANGED <<answer, chats, seen, args, env, prompt, stdin_passed,
                   role_class, full_completion, option, turns, calls>>

\* Lines 179-181.
PrintChat ==
    /\ pc = "dispatch"
    /\ Branch(args) = "print"
    /\ calls' = Append(calls, Call("ChatHandler.show_messages_callback", "", args.chat_id, ""))
    /\ pc' = "exited"
    /\ UNCHANGED <<answer, chats, seen, args, env, prompt, stdin_passed,
                   role_class, full_completion, option, error, turns>>

\* Lines 183-185.
DeleteChat ==
    /\ pc = "dispatch"
    /\ Branch(args) = "delete"
    /\ calls' = Append(calls, Call("ChatHandler.delete_chat", role_class[1], args.chat_id, ""))
    /\ chats' = ChatDelete(chats, args.chat_id)
    /\ pc' = "exited"
    /\ UNCHANGED <<answer, seen, args, env, prompt, stdin_passed, role_class,
                   full_completion, option, error, turns>>

\* Lines 187-197.  ChatHandler.handle returns the completion or raises the
\* completion service's error.
Complete ==
    /\ pc = "dispatch"
    /\ Branch(args) = "complete"
    /\ IF args.chat_id # ""
       THEN IF ~Truthy(prompt)
            THEN /\ Raise("MissingParameter: PROMPT")
                 /\ UNCHANGED <<full_completion, calls, chats, seen>>
            ELSE LET made == ChatInit(chats, args.chat_id)
                 IN  /\ seen' = <<Stored(chats, args.chat_id), Stored(made, args.chat_id)>>
                     /\ \/ /\ Room(made, args.chat_id)
                           /\ \E text \in Completions :
                                /\ full_completion' = Some(text)
                                /\ calls' = Append(calls,
                                      Call("ChatHandler.handle", role_class[1], prompt[1], text))
                           /\ chats' = ChatAppend(made, args.chat_id)
                           /\ pc' = "code"
                           /\ UNCHANGED error
                        \/ /\ calls' = Append(calls,
                                  Pending("ChatHandler.handle", role_class[1], prompt[1]))
                           /\ chats' = made
                           /\ Raise("CompletionServiceError")
                           /\ UNCHANGED full_completion
       ELSE /\ pc' = "code"
            /\ UNCHANGED <<full_completion, calls, error, chats, seen>>
    /\ UNCHANGED <<answer, args, env, prompt, stdin_passed, role_class, option,
                   turns>>

(***************************************************************************)
(* typer.prompt with a Choice type that is not case sensitive: a bare      *)
(* Enter gives the default, any other answer is given back as the choice   *)
(* it matches.  An answer that matches no choice is asked for again inside *)
(* the same call.  Ctrl-C, or a stdin that is at its end, raises Abort.    *)
(***************************************************************************)
Lower(typed) ==
    CASE typed = "E" -> "e"
      [] typed = "A" -> "a"
      [] typed = "C" -> "c"
      [] OTHER -> typed

PromptReturn(typed, default) == IF typed = "" THEN default ELSE Lower(typed)

Accepted(typed, choices) == typed = "" \/ Lower(typed) \in choices

\* The last call, now returned with `ret`.
Returned(cs, ret) == [cs EXCEPT ![Len(cs)] = [@ EXCEPT !.ret = ret, !.ok = TRUE]]

\* Line 148 has read stdin to its end when it was passed.
StdinAtEof == stdin_passed /\ ~args.repl

\* A variant of line 203 that offers Execute for code too.
CodeChoicesWithExecute == {"c", "a", "e"}

\* Line 203 and line 204.
CodeChoices == {"c", "a"}
CodeDefault == "a"

\* Line 215 and line 216.
ShellChoices == {"e", "d", "a", "y", "c"}
\* A variant of line 216 that always defaults to Execute.
ShellDefaultExecute(default_execute) == "e"

ShellDefault(default_execute) == IF default_execute = "true" THEN "e" ELSE "a"

\* A variant of `option in ("c")` written as `option in ("c", "a")`.
InCOrAbort(opt) == opt \in {"c", "a"}

\* `option in ("c")`, lines 208 and 223: ("c") is the string "c", and the
\* test is for a substring of it.
InC(opt) == opt \in {"", "c"}

\* Line 220.
Executes(opt) == opt \in {"e", "y"}

\* Line 226: the elif branch is taken.
DescribeChosen(opt) == ~InC(opt) /\ opt = "d"

\* A variant in which the copy branch ends in `continue` too.
LoopsAgainAfterCopy(opt) == DescribeChosen(opt) \/ InC(opt)

\* Lines 234-235: `continue` ends the elif branch; every other path reaches
\* `break`.
LoopsAgain(opt) == DescribeChosen(opt)

\* Line 212.
ShellLoopGuard(shell, piped) == shell /\ ~piped

\* A variant that assigns the describe completion's result to full_completion.
AfterDescribeAssigns(completion, description) == description

\* Lines 227-233: the describe completion's result is dropped.
AfterDescribe(completion, description) == completion

DescribeCount(cs) == Cardinality({i \in 1..Len(cs) : cs[i].fn = "DefaultHandler.handle"})

(***************************************************************************)
(* Lines 200-210: the prompt of --code.                                    *)
(***************************************************************************)
CodePrompt ==
    /\ pc = "code"
    /\ IF args.code
       THEN /\ calls' = Append(calls, Pending("typer.prompt", "", "[C]opy, [A]bort"))
            /\ pc' = "code_prompt"
       ELSE /\ pc' = "loop"
            /\ UNCHANGED calls
    /\ UNCHANGED <<answer, chats, seen, args, env, prompt, stdin_passed,
                   role_class, full_completion, option, error, turns>>

CodeAnswer ==
    /\ pc = "code_prompt"
    /\ \/ /\ Raise("Abort")
          /\ UNCHANGED <<option, calls, answer>>
       \/ /\ ~StdinAtEof
          /\ \E typed \in Typed :
               /\ Accepted(typed, CodeChoices)
               /\ answer' = Some(typed)
               /\ LET o == PromptReturn(typed, CodeDefault)
                      c0 == Returned(calls, o)
                  IN  /\ option' = o
                      /\ IF InC(o) /\ full_completion = Unbound
                         THEN /\ calls' = c0
                              /\ Raise("UnboundLocalError: full_completion")
                         ELSE /\ calls' = IF InC(o)
                                          THEN Append(c0, Call("copy_to_clipboard", "",
                                                              full_completion[1], ""))
                                          ELSE c0
                              /\ pc' = "loop"
                              /\ UNCHANGED error
    /\ UNCHANGED <<chats, seen, args, env, prompt, stdin_passed, role_class,
                   full_completion, turns>>

(***************************************************************************)
(* Lines 212-235: the loop of --shell.                                     *)
(***************************************************************************)
\* A variant of the loop that runs a piped invocation's command unasked.
WhileShellUnattended ==
    /\ pc = "loop"
    /\ IF args.shell /\ stdin_passed /\ full_completion # Unbound
       THEN /\ calls' = Append(calls, Call("run_command", "", full_completion[1], ""))
            /\ pc' = "returned"
       ELSE IF ShellLoopGuard(args.shell, stdin_passed)
       THEN /\ calls' = Append(calls,
                    Pending("typer.prompt", "", "[E]xecute, [C]opy, [D]escribe, [A]bort"))
            /\ pc' = "shell_prompt"
       ELSE /\ pc' = "returned"
            /\ UNCHANGED calls
    /\ UNCHANGED <<answer, chats, seen, args, env, prompt, stdin_passed,
                   role_class, full_completion, option, error, turns>>

WhileShell ==
    /\ pc = "loop"
    /\ IF ShellLoopGuard(args.shell, stdin_passed)
       THEN /\ calls' = Append(calls,
                    Pending("typer.prompt", "", "[E]xecute, [C]opy, [D]escribe, [A]bort"))
            /\ pc' = "shell_prompt"
       ELSE /\ pc' = "returned"
            /\ UNCHANGED calls
    /\ UNCHANGED <<answer, chats, seen, args, env, prompt, stdin_passed,
                   role_class, full_completion, option, error, turns>>

ShellAnswer ==
    /\ pc = "shell_prompt"
    /\ \/ /\ Raise("Abort")
          /\ UNCHANGED <<option, calls, full_completion, answer>>
       \/ /\ ~StdinAtEof
          /\ \E typed \in Typed :
               /\ Accepted(typed, ShellChoices)
               /\ answer' = Some(typed)
               /\ LET o == PromptReturn(typed, ShellDefault(env.default_execute))
                      c0 == Returned(calls, o)
                      c1 == IF Executes(o)
                            THEN Append(c0, Call("run_command", "", full_completion[1], ""))
                            ELSE c0
                      c2 == IF InC(o)
                            THEN Append(c1, Call("copy_to_clipboard", "",
                                                full_completion[1], ""))
                            ELSE c1
                      next == IF LoopsAgain(o) THEN "loop" ELSE "returned"
                  IN  /\ DescribeChosen(o) => DescribeCount(calls) < MaxDescribe
                      /\ option' = o
                      /\ IF (Executes(o) \/ InC(o) \/ DescribeChosen(o))
                            /\ full_completion = Unbound
                         THEN /\ calls' = c0
                              /\ Raise("UnboundLocalError: full_completion")
                              /\ UNCHANGED full_completion
                         ELSE IF DescribeChosen(o)
                         THEN \/ \E d \in Descriptions :
                                   /\ calls' = Append(c2, Call("DefaultHandler.handle",
                                                     "describe_shell", full_completion[1], d))
                                   /\ full_completion' = AfterDescribe(full_completion, Some(d))
                                   /\ pc' = next
                                   /\ UNCHANGED error
                              \/ /\ calls' = Append(c2, Pending("DefaultHandler.handle",
                                                     "describe_shell", full_completion[1]))
                                 /\ Raise("CompletionServiceError")
                                 /\ UNCHANGED full_completion
                         ELSE /\ calls' = c2
                              /\ pc' = next
                              /\ UNCHANGED <<error, full_completion>>
    /\ UNCHANGED <<chats, seen, args, env, prompt, stdin_passed, role_class,
                   turns>>

Next ==
    \/ Invoke
    \/ CheckModes
    \/ CheckEditor
    \/ ResolveRole
    \/ EnterRepl
    \/ ReplTurn
    \/ ReplInterrupt
    \/ PrintChat
    \/ DeleteChat
    \/ Complete
    \/ CodePrompt
    \/ CodeAnswer
    \/ WhileShell
    \/ ShellAnswer

Spec == Init /\ [][Next]_vars

(***************************************************************************)
(* One invocation after another: the process ends, the stored              *)
(* conversations stay, and sgpt is started again.                          *)
(***************************************************************************)
Finish ==
    /\ pc \in {"raised", "exited", "returned"}
    /\ pc' = "idle"
    /\ args' = NoArgs
    /\ env' = NoEnv
    /\ prompt' = None
    /\ stdin_passed' = FALSE
    /\ role_class' = Unbound
    /\ full_completion' = Unbound
    /\ option' = ""
    /\ error' = ""
    /\ turns' = 0
    /\ calls' = <<>>
    /\ answer' = None
    /\ seen' = <<>>
    /\ UNCHANGED chats

NextRuns == Next \/ Finish

SpecRuns == Init /\ [][NextRuns]_vars

(***************************************************************************)
(* What the claims speak of, read off the inputs and the calls made.       *)
(***************************************************************************)
Fns(f) == {i \in 1..Len(calls) : calls[i].fn = f}
Called(f) == Fns(f) # {}
Count(f) == Cardinality(Fns(f))

ModeFlags == {"shell", "describe_shell", "code"}
ModesSet == Cardinality({f \in ModeFlags : args[f]})

ModesError == "BadArgumentUsage: only one of --shell, --describe-shell, --code"

RoleLookups == {"DefaultRoles.check_get", "SystemRole.get"}
HandlerCalls == {"ReplHandler.handle", "ChatHandler.handle", "DefaultHandler.handle"}
CompletionCalls ==
    {"ReplHandler.get_completion", "ChatHandler.handle", "DefaultHandler.handle"}
ChatCalls == {"ChatHandler.show_messages_callback", "ChatHandler.delete_chat"}

Started == pc # "idle"
Ended == pc \in {"raised", "exited", "returned"}

\* C1: an invocation with more than one of shell, describe_shell and code set
\* fails with the conflicting-modes usage error, and up to that failure no
\* role is resolved, no handler is invoked, no completion is asked for, no
\* conversation is printed or deleted and no action prompt is shown, whatever
\* repl, print_chat, delete_chat, role, editor and chat_id are.
C1_ConflictFailsFirst ==
    (Started /\ ModesSet > 1) =>
        /\ pc \in {"modes", "raised"}
        /\ pc = "raised" => error = ModesError
        /\ role_class = Unbound
        /\ \A f \in RoleLookups \cup HandlerCalls \cup CompletionCalls \cup ChatCalls
                     \cup {"typer.prompt"} : ~Called(f)

C1_Witness ==
    /\ pc = "raised"
    /\ error = ModesError
    /\ args.shell /\ args.code
    /\ args.repl /\ args.print_chat /\ args.delete_chat /\ args.editor
    /\ args.role = Some("custom-role")
    /\ args.chat_id = "abc"

\* C2: when stdin is not a terminal, run_command is never called in the
\* invocation, also after a shell completion has been produced.
C2_PipedNeverExecutes ==
    (Started /\ ~env.isatty) => ~Called("run_command")

C2_Witness ==
    /\ ~env.isatty
    /\ args.shell
    /\ role_class = Some("shell")
    /\ \E i \in Fns("ChatHandler.handle") : calls[i].ok /\ Some(calls[i].ret) = full_completion
    /\ pc = "returned"

\* The completion call of the invocation has returned a completion.
Completed == \E i \in Fns("ChatHandler.handle") : calls[i].ok

\* C3: when stdin is not a terminal, no action prompt is shown after the
\* completion, neither the prompt of --shell nor the prompt of --code.
C3_PipedShowsNoPrompt ==
    (~env.isatty /\ Completed) => ~Called("typer.prompt")

ShellOrCodeRoles == {"shell", "code"}

\* C4: if an action prompt is shown, the role that was resolved and used for
\* the completion is the shell-command generator or the code-only generator,
\* also when a role name is given together with --shell or --code.
C4_PromptOnlyForShellOrCodeRole ==
    (Called("typer.prompt") /\ Completed) =>
        /\ role_class[1] \in ShellOrCodeRoles
        /\ \A i \in Fns("ChatHandler.handle") : calls[i].role = role_class[1]

Last(cs) == cs[Len(cs)]

\* The step in which the prompt of --shell returns the choice o.
ShellChoice(o) ==
    /\ pc = "shell_prompt"
    /\ Len(calls') >= Len(calls)
    /\ calls'[Len(calls)].ok
    /\ calls'[Len(calls)].ret = o

ShellPromptText == "[E]xecute, [C]opy, [D]escribe, [A]bort"
CodePromptText == "[C]opy, [A]bort"

\* C5: in the loop of --shell only Describe loops.  Choosing Describe makes
\* one completion call with the describe-shell role on the pending command;
\* when it returns, the action prompt is shown again with the same pending
\* completion.  Choosing Execute or Abort ends the loop: no further prompt
\* is shown in the invocation.
C5_OnlyDescribeLoops ==
    [][ /\ ShellChoice("d") =>
            /\ full_completion # Unbound
            /\ Len(calls') = Len(calls) + 1
            /\ Last(calls').fn = "DefaultHandler.handle"
            /\ Last(calls').role = "describe_shell"
            /\ Last(calls').arg = full_completion[1]
            /\ Last(calls').ok => (pc' = "loop" /\ full_completion' = full_completion)
        /\ (pc = "loop" /\ Called("DefaultHandler.handle")) =>
            /\ pc' = "shell_prompt"
            /\ calls' = Append(calls, Pending("typer.prompt", "", ShellPromptText))
            /\ full_completion' = full_completion
        /\ (pc = "shell_prompt" /\ pc' = "loop") => ShellChoice("d")
        /\ \A o \in {"e", "y", "a"} : ShellChoice(o) => Ended'
        /\ Ended => calls' = calls
      ]_vars

\* C6: in shell mode, after the completion text has been copied to the
\* clipboard, control returns to the action prompt.
C6_CopyReturnsToPrompt ==
    [][ (ShellChoice("c") /\ Called("copy_to_clipboard")') => pc' = "loop" ]_vars

\* The calls[i] that is the prompt of --shell, returned with choice o.
ShellChose(i, o) ==
    /\ calls[i].fn = "typer.prompt"
    /\ calls[i].arg = ShellPromptText
    /\ calls[i].ok
    /\ calls[i].ret = o

\* C6 amended: in shell mode Copy ends the action loop.  Once Copy is chosen
\* the completion text is copied to the clipboard, no further action prompt
\* is shown and main returns; with no completion to copy, main ends in the
\* error of reading full_completion.
C6_CopyEndsLoop ==
    \A i \in 1..Len(calls) :
        ShellChose(i, "c") =>
            \/ /\ pc = "returned"
               /\ error = ""
               /\ Len(calls) = i + 1
               /\ calls[i + 1] = Call("copy_to_clipboard", "", full_completion[1], "")
            \/ /\ pc = "raised"
               /\ full_completion = Unbound
               /\ Len(calls) = i

C6_Witness ==
    /\ pc = "returned"
    /\ Len(calls) > 1
    /\ ShellChose(Len(calls) - 1, "c")
    /\ Last(calls).fn = "copy_to_clipboard"
    /\ DescribeCount(calls) >= 1

\* C7: run_command is called at most once in an invocation, only as the
\* direct response to an Execute choice ("e", or "y"), with the text that the
\* completion call of this invocation returned, whatever Describe steps came
\* before; after it main returns.
C7_ExecuteOnceWithCompletion ==
    /\ Count("run_command") <= 1
    /\ Count("ChatHandler.handle") <= 1
    /\ \A i \in Fns("run_command") :
        /\ i > 1
        /\ \E o \in {"e", "y"} : ShellChose(i - 1, o)
        /\ \E j \in Fns("ChatHandler.handle") :
               j < i /\ calls[j].ok /\ calls[i].arg = calls[j].ret
        /\ i = Len(calls)
        /\ pc = "returned"

C7_Witness ==
    /\ Called("run_command")
    /\ Last(calls).fn = "run_command"
    /\ Last(calls).arg = "rm -r x"
    /\ ShellChose(Len(calls) - 1, "y")
    /\ DescribeCount(calls) >= 2
    /\ pc = "returned"

\* The calls[i] that is an action prompt answered with Abort.
AbortChosen(i) ==
    /\ calls[i].fn = "typer.prompt"
    /\ calls[i].ok
    /\ calls[i].ret = "a"

\* C8: once Abort is chosen at the prompt of --shell or of --code, main makes
\* no further call (no run_command, no copy_to_clipboard, no completion, no
\* prompt) and returns without an error.
C8_AbortEndsWithoutEffect ==
    \A i \in 1..Len(calls) :
        AbortChosen(i) =>
            /\ i = Len(calls)
            /\ error = ""
            /\ pc \in {"loop", "returned"}
            /\ pc = "loop" => (args.code /\ calls[i].arg = CodePromptText)

C8_Witness ==
    /\ pc = "returned"
    /\ args.shell
    /\ Len(calls) > 0
    /\ AbortChosen(Len(calls))
    /\ full_completion # Unbound
    /\ DescribeCount(calls) >= 1

\* C9: with --code the action prompt is the copy/abort prompt, it is shown
\* once and no more, it returns only copy or abort, and the invocation
\* neither runs the completion with run_command nor describes it.
C9_CodeCopyOrAbortOnly ==
    args.code =>
        /\ Count("typer.prompt") <= 1
        /\ pc \in {"code_prompt", "loop", "returned"} => Count("typer.prompt") = 1
        /\ \A i \in Fns("typer.prompt") :
            /\ calls[i].arg = CodePromptText
            /\ calls[i].ok => calls[i].ret \in {"c", "a"}
        /\ ~Called("run_command")
        /\ ~Called("DefaultHandler.handle")

C9_Witness ==
    /\ args.code
    /\ pc = "returned"
    /\ full_completion # Unbound
    /\ Count("typer.prompt") = 1
    /\ Last(calls) = Call("copy_to_clipboard", "", full_completion[1], "")

\* The calls that hand a role to the REPL or to the chat handler.
RoleHandlers == Fns("ReplHandler.handle") \cup Fns("ChatHandler.handle")
                    \cup Fns("ChatHandler.delete_chat")

\* C10: when a role name is given, the role handed to the REPL or the chat
\* handler is the one looked up under that name, whatever the mode flags; the
\* role is derived from the flags only when no role name is given.
C10_GivenRoleOverrides ==
    /\ \A i \in RoleHandlers : args.role # None => calls[i].role = args.role[1]
    /\ Called("DefaultRoles.check_get") => args.role = None

NamedRole == args.role # None /\ args.role # Some("")

\* The role was looked up with call fn, and that call returned it.
LookedUp(fn, name, r) ==
    \E j \in Fns(fn) : calls[j].ok /\ calls[j].arg = name /\ calls[j].ret = r

\* C10 amended: when a role name that is not the empty string is given, the
\* role handed to the REPL or the chat handler is the one looked up under
\* that name, whatever the mode flags; the role is derived from the flags
\* when no role name, or the empty string, is given.
C10_NamedRoleOverrides ==
    /\ Called("SystemRole.get") => (NamedRole /\ ~Called("DefaultRoles.check_get"))
    /\ Called("DefaultRoles.check_get") => ~NamedRole
    /\ \A i \in RoleHandlers :
        IF NamedRole
        THEN /\ calls[i].role = args.role[1]
             /\ LookedUp("SystemRole.get", args.role[1], calls[i].role)
        ELSE LookedUp("DefaultRoles.check_get", "", calls[i].role)

C10_Witness ==
    /\ args.shell
    /\ args.role = Some("custom-role")
    /\ \E i \in Fns("ChatHandler.handle") : calls[i].ok /\ calls[i].role = "custom-role"

OneShotPath == ~args.repl /\ ~args.print_chat /\ ~args.delete_chat

\* Neither the PROMPT argument, nor stdin, nor the editor gives a prompt.
NoPromptSupplied == ~args.editor /\ args.prompt \in {None, Some("")} /\ env.stdin = ""

MissingError == "MissingParameter: PROMPT"

BeforeCompletion == {"modes", "editor", "role", "dispatch"}

\* C11: an invocation on the one-shot path, with a conversation id, that
\* supplies no prompt fails with the missing-prompt usage error before a chat
\* handler is invoked, a completion is asked for or an action prompt is
\* shown, whether stdin is a terminal or a pipe.
C11_MissingPromptFailsFirst ==
    (Started /\ OneShotPath /\ NoPromptSupplied /\ args.chat_id # "") =>
        /\ pc \in BeforeCompletion \cup {"raised"}
        /\ pc = "raised" => error \in {ModesError, "UnknownRole", MissingError}
        /\ \A f \in HandlerCalls \cup CompletionCalls \cup ChatCalls \cup {"typer.prompt"} :
               ~Called(f)

C14_PromptHasCompletion ==
    Called("typer.prompt") =>
        \E i \in Fns("ChatHandler.handle") :
            calls[i].ok /\ full_completion = Some(calls[i].ret)

\* C16: an invocation without --interactive and with --print-chat or
\* --delete-chat asks for no completion and shows no action prompt, also with
\* --shell or --code and with no prompt; it ends by exit() right after the
\* conversation is printed or deleted; with both set the conversation is
\* printed and nothing is deleted.
C16_PrintOrDeleteOnly ==
    (~args.repl /\ (args.print_chat \/ args.delete_chat)) =>
        /\ pc \in BeforeCompletion \cup {"raised", "exited"}
        /\ pc = "raised" => error # MissingError
        /\ \A f \in HandlerCalls \cup CompletionCalls \cup {"typer.prompt"} : ~Called(f)
        /\ args.print_chat => ~Called("ChatHandler.delete_chat")
        /\ Count("ChatHandler.show_messages_callback") + Count("ChatHandler.delete_chat") <= 1
        /\ pc = "exited" =>
            /\ error = ""
            /\ Last(calls).arg = args.chat_id
            /\ Last(calls).fn = IF args.print_chat
                                THEN "ChatHandler.show_messages_callback"
                                ELSE "ChatHandler.delete_chat"

C16_Witness ==
    /\ ~args.repl /\ args.print_chat /\ args.delete_chat /\ args.shell
    /\ args.prompt = None
    /\ env.isatty
    /\ pc = "exited"
    /\ Called("ChatHandler.show_messages_callback")

\* C13: in every default invocation (one-shot, conversation "temp") the
\* chat handler reads no prior messages from "temp" before the new exchange
\* is appended, whatever earlier invocations left there.
C13_TempStartsEmpty ==
    (OneShotPath /\ args.chat_id = "temp" /\ Called("ChatHandler.handle")) =>
        /\ seen # <<>>
        /\ seen[2] = 0

C13_Witness ==
    /\ OneShotPath
    /\ args.chat_id = "temp"
    /\ Completed
    /\ seen # <<>>
    /\ seen[1] > 0
    /\ seen[2] = 0
    /\ chats["temp"] = 1

\* The last action prompt shown, if it has returned.
LastPromptReturned(i) ==
    /\ i \in Fns("typer.prompt")
    /\ \A j \in Fns("typer.prompt") : j <= i
    /\ calls[i].ok

\* The choice an answer names, whatever its case.
ChoiceTyped(t) ==
    CASE t \in {"e", "E"} -> "e"
      [] t \in {"a", "A"} -> "a"
      [] t \in {"c", "C"} -> "c"
      [] t \in {"d", "D"} -> "d"
      [] t \in {"y", "Y"} -> "y"

\* C15: DEFAULT_EXECUTE_SHELL_CMD changes only the default answer of the
\* prompt of --shell.  A bare Enter there is Execute exactly when the setting
\* equals "true" and Abort otherwise; at the prompt of --code it is Abort; any
\* other answer is the choice typed; and run_command is called only after
\* the prompt of --shell has been shown and has returned.
C15_DefaultAnswerOnly ==
    /\ \A i \in 1..Len(calls) :
        LastPromptReturned(i) =>
            /\ answer # None
            /\ calls[i].ret =
                  IF answer[1] # "" THEN ChoiceTyped(answer[1])
                  ELSE IF calls[i].arg = ShellPromptText /\ env.default_execute = "true"
                  THEN "e"
                  ELSE "a"
    /\ \A i \in Fns("run_command") :
        \E j \in Fns("typer.prompt") :
            j < i /\ calls[j].ok /\ calls[j].arg = ShellPromptText

C15_Witness ==
    /\ answer = Some("")
    /\ env.default_execute = "true"
    /\ Len(calls) > 1
    /\ ShellChose(Len(calls) - 1, "e")
    /\ Last(calls).fn = "run_command"
    /\ pc = "returned"

====
